---- MODULE Spec2Model ----
(***************************************************************************)
(* The annotation canvas of IssueMaker's editor                            *)
(* (src/src/editor/components/AnnotationCanvas.tsx): the React state of    *)
(* the component, one action per event handler, and the geometry helpers   *)
(* the handlers call.  Beside it, each under a specification of its own:   *)
(* the capture buffers of the content script, the message handlers of the  *)
(* background worker, and the hand-over of a captured screenshot to the    *)
(* editor tab.                                                              *)
(*                                                                          *)
(* Conventions.  A shape (AnnotationData) is a record with the fields      *)
(* id, type, startX, startY, endX, endY, color, text; an absent optional   *)
(* number is Undefined, an absent text is NoText.  Ids are naturals, the   *)
(* null / '' id is NoId.  Texts are sequences of one-character strings.    *)
(* The comment popup's and the canvas's pixel placement (popupX, popupY,   *)
(* canvasSize) only position DOM elements and are not part of the state.   *)
(***************************************************************************)
EXTENDS Integers, Sequences, FiniteSets, TLC

VARIABLES
    tool,               \* useState<AnnotationTool>
    color,              \* useState<string>
    annotations,        \* useState<AnnotationData[]>
    redoStack,          \* useState<AnnotationData[][]>
    selectedId,         \* useState<string | null>
    isDrawing,          \* useState(false)
    currentAnnotation,  \* useState<AnnotationData | null>
    commentPopup,       \* useState<CommentPopup>
    textInput,          \* useState<TextInput>
    parent,             \* the annotations last handed to onUpdate (attachment.annotations)
    nextId,             \* the next id generateId returns
    dataUrl,            \* attachment.dataUrl, the image the editor holds in its draft
    image,              \* imageRef.current, the image drawn under the annotations
    imageLoaded,        \* useState(false)
    canvasSize,         \* useState({ width: 800, height: 600 })
    \* history variables: they record the run, no handler reads them; steps
    \* only bounds the length of the runs explored
    startAnnotations,   \* annotations at session start
    lastOp,             \* the operation that made the last step
    prevAnnotations,    \* annotations before the last add / delete / clear / undo;
                        \* after a pointer leave, the provisional shape it dropped
    hist,               \* committed mutations and the undos that followed them
    lastPoint,          \* the point of the last Select-tool press, else NoPoint
    chain,              \* progress through "add, label it, undo, redo": 0..4
    steps,              \* number of handler runs so far
    \* the content script (console-capture.ts, network capture)
    logs,               \* const logs: ConsoleEntry[]
    networkErrors,      \* const networkErrors: NetworkError[]
    added,              \* history: the number of addLog and addNetworkError calls
    result,             \* what the last call of the capture module returned
    \* the background worker (handlers.ts, github.ts)
    settings,           \* the settings in chrome.storage.local
    message,            \* the message handled last
    apiCalls,           \* the calls it made to the GitHub and Gemini API, in order
    fetching,           \* fetchUserRepos in progress: its page and its repos
    settled,            \* how the promise of handleMessage settled
    response,           \* what the onMessage listener passed to sendResponse
    \* the hand-over of a capture to the editor tab (index.ts, popup, editor)
    pending,            \* issuemaker_pending_* in chrome.storage.session
    pc,                 \* where each capture trigger and its editor tab stand
    loaded              \* what the editor tab of each trigger has loaded

\* the editor and the record of its run
editor == << tool, color, annotations, redoStack, selectedId, isDrawing,
             currentAnnotation, commentPopup, textInput, parent, nextId,
             dataUrl, image, imageLoaded, canvasSize,
             startAnnotations, lastOp, prevAnnotations, hist, lastPoint,
             chain, steps >>

capture == << logs, networkErrors, added, result >>
background == << settings, message, apiCalls, fetching, settled, response >>
handover == << pending, pc, loaded >>

\* everything the editor's handlers have no access to
outside == << capture, background, handover >>

vars == << editor, outside >>

ui == << tool, color, selectedId, isDrawing, currentAnnotation,
         commentPopup, textInput >>

\* the image of the session and the canvas fitted to it
session == << dataUrl, image, imageLoaded, canvasSize >>

----
(* Bounds of the model *)

\* number of handler runs explored from the initial state
MaxSteps == 7

\* number of attachments whose upload may fail
MaxAttachments == 3

\* number of capture triggers that run close together
MaxTriggers == 3

\* number of console events and of failed requests explored
MaxLogsAdded == 102
MaxErrorsAdded == 68

----
(* Values *)

Undefined == -1
NoId == 0
NoText == << "undefined" >>

Tools == { "select", "arrow", "rectangle", "text", "blur" }

\* two of the seven ANNOTATION_COLORS
Colors == { "#ef4444", "#3b82f6" }

Pt(px, py) == [x |-> px, y |-> py]
NoPoint == Pt(-1, -1)

\* pointer positions of the interactive specification
Points == { Pt(10, 10), Pt(15, 15), Pt(200, 12) }

\* what the user types into the text input or the comment popup
TypedTexts == { << " " >>, << " ", "a" >> }

Shape(i, t, sx, sy, ex, ey, c, txt) ==
    [id |-> i, type |-> t, startX |-> sx, startY |-> sy,
     endX |-> ex, endY |-> ey, color |-> c, text |-> txt]

\* currentAnnotation = null, and findAnnotationAt's null
NullAnnotation ==
    Shape(NoId, "null", Undefined, Undefined, Undefined, Undefined, "", NoText)

ClosedPopup == [visible |-> FALSE, annotationId |-> NoId]
ClosedInput == [visible |-> FALSE, x |-> 0, y |-> 0, value |-> << >>]

\* annotations stored with the attachment by an earlier editing session
Stored1 == Shape(1, "arrow", 5, 5, 25, 30, "#ef4444", NoText)
Stored2 == Shape(2, "rectangle", 190, 2, 210, 30, "#3b82f6", NoText)
Stored3 == Shape(3, "text", 150, 20, Undefined, Undefined, "#ef4444", << "a" >>)
StoredLists == { << >>, << Stored1, Stored2 >>, << Stored1, Stored2, Stored3 >> }

\* An image is known by where it comes from, its native size and the marks
\* flattened into its pixels.  imageRef.current = null is NoImage.
ImageOf(source, w, h, marks) ==
    [src |-> source, width |-> w, height |-> h, baked |-> marks]

NoImage == ImageOf("null", 0, 0, << >>)

\* the screenshot captured by the popup, and a data URL no decoder accepts
Screenshot == ImageOf("screenshot", 1000, 800, << >>)
Corrupt == ImageOf("corrupt", 0, 0, << >>)

Decodable(img) == img.src \in { "screenshot", "composite" }

DefaultCanvasSize == [width |-> 800, height |-> 600]

\* the size of the annotation container in the editor window
Container == [clientWidth |-> 832, clientHeight |-> 680]

----
(* Helpers of the handlers *)

Abs(n) == IF n < 0 THEN -n ELSE n
Min(a, b) == IF a < b THEN a ELSE b
Max(a, b) == IF a > b THEN a ELSE b

\* JavaScript's a || b on an optional number: undefined and 0 are falsy
OrElse(a, b) == IF a = Undefined \/ a = 0 THEN b ELSE a

\* JavaScript's truthiness of an optional string
Truthy(t) == t # NoText /\ t # << >>

RECURSIVE TrimStart(_)
TrimStart(t) ==
    IF t # << >> /\ Head(t) = " " THEN TrimStart(Tail(t)) ELSE t

RECURSIVE TrimEnd(_)
TrimEnd(t) ==
    IF t # << >> /\ t[Len(t)] = " " THEN TrimEnd(SubSeq(t, 1, Len(t) - 1)) ELSE t

\* String.prototype.trim
\* faulty variant: the text is used as typed
NoTrim(t) == t

Trim(t) == TrimEnd(TrimStart(t))

GetAnnotationBounds(ann) ==
    IF ann.type = "text"
    THEN [x |-> ann.startX, y |-> ann.startY - 20, width |-> 100, height |-> 25]
    ELSE LET x == Min(ann.startX, OrElse(ann.endX, ann.startX))
             y == Min(ann.startY, OrElse(ann.endY, ann.startY))
             width == Abs(OrElse(ann.endX, ann.startX) - ann.startX)
             height == Abs(OrElse(ann.endY, ann.startY) - ann.startY)
         IN  [x |-> x, y |-> y, width |-> Max(width, 20), height |-> Max(height, 20)]

\* faulty variant: the hit test with a tolerance of 20 px
HitTestWide(ann, point) ==
    LET bounds == GetAnnotationBounds(ann)
    IN  /\ point.x >= bounds.x - 20
        /\ point.x <= bounds.x + bounds.width + 20
        /\ point.y >= bounds.y - 20
        /\ point.y <= bounds.y + bounds.height + 20

\* the condition of findAnnotationAt's loop body
HitTest(ann, point) ==
    LET bounds == GetAnnotationBounds(ann)
    IN  /\ point.x >= bounds.x - 10
        /\ point.x <= bounds.x + bounds.width + 10
        /\ point.y >= bounds.y - 10
        /\ point.y <= bounds.y + bounds.height + 10

RECURSIVE FindFrom(_, _, _)
FindFrom(anns, point, i) ==
    IF i < 1 THEN NullAnnotation
    ELSE IF HitTest(anns[i], point) THEN anns[i]
    ELSE FindFrom(anns, point, i - 1)

\* faulty variant: the scan runs from the bottom of the list upward
RECURSIVE FindUpFrom(_, _, _)
FindUpFrom(anns, point, i) ==
    IF i > Len(anns) THEN NullAnnotation
    ELSE IF HitTest(anns[i], point) THEN anns[i]
    ELSE FindUpFrom(anns, point, i + 1)

FindAnnotationAtBottomUp(anns, point) == FindUpFrom(anns, point, 1)

FindAnnotationAt(anns, point) == FindFrom(anns, point, Len(anns))

\* faulty variant: a drag is dropped when either side is under 10 px
TooSmallEither(ann) ==
    LET dx == Abs(OrElse(ann.endX, 0) - ann.startX)
        dy == Abs(OrElse(ann.endY, 0) - ann.startY)
    IN  dx < 10 \/ dy < 10

\* faulty variant: the click threshold is 5 px
TooSmallUnder5(ann) ==
    LET dx == Abs(OrElse(ann.endX, 0) - ann.startX)
        dy == Abs(OrElse(ann.endY, 0) - ann.startY)
    IN  dx < 5 /\ dy < 5

\* handleMouseUp's "too small (just a click)" test
TooSmall(ann) ==
    LET dx == Abs(OrElse(ann.endX, 0) - ann.startX)
        dy == Abs(OrElse(ann.endY, 0) - ann.startY)
    IN  dx < 10 /\ dy < 10

\* annotations.filter((a) => a.id !== id)
\* faulty variant: the last shape is removed, whichever is selected
WithoutLast(anns, id) ==
    IF Len(anns) = 0 THEN anns ELSE SubSeq(anns, 1, Len(anns) - 1)

RECURSIVE WithoutId(_, _)
WithoutId(anns, id) ==
    IF anns = << >> THEN << >>
    ELSE IF Head(anns).id # id THEN << Head(anns) >> \o WithoutId(Tail(anns), id)
    ELSE WithoutId(Tail(anns), id)

\* annotations.map((ann) => ann.id === id ? { ...ann, text } : ann)
\* faulty variant: the labelled shape is added as a new entry
WithTextAppendsCopy(anns, id, txt) ==
    anns \o [ i \in 1..Len(SelectSeq(anns, LAMBDA a : a.id = id)) |->
                [ SelectSeq(anns, LAMBDA a : a.id = id)[i] EXCEPT !.text = txt ] ]

WithText(anns, id, txt) ==
    [i \in 1..Len(anns) |->
        IF anns[i].id = id THEN [anns[i] EXCEPT !.text = txt] ELSE anns[i]]

\* the list handleUndo stores: annotations.slice(0, -1), or the list as it
\* is when the handler returns early
UndoAnnotations(anns) ==
    IF Len(anns) = 0 THEN anns ELSE SubSeq(anns, 1, Len(anns) - 1)

\* faulty variant: redo restores the oldest undone batch
ToRestoreOldest(stack) == stack[1]

\* handleRedo: redoStack[redoStack.length - 1]
ToRestore(stack) == stack[Len(stack)]

\* handleRedo: redoStack.slice(0, -1)
\* faulty variant: redo leaves the restored batch on the stack
NewRedoStackKept(stack) == stack

NewRedoStack(stack) == SubSeq(stack, 1, Len(stack) - 1)

\* faulty variant: updateParent returns as if no attachment were mounted
UpdateParentNoAttachment(newAnnotations) == parent

\* updateParent: the list handed to onUpdate; the editor mounts the canvas
\* on draft.attachments[0], so attachment is never null
UpdateParent(newAnnotations) == newAnnotations

\* the room for the canvas: the container less its padding and the toolbar
AvailableWidth(container) == container.clientWidth - 32
AvailableHeight(container) == container.clientHeight - 80

\* Math.round(n / d) for n >= 0 and d > 0
Round(n, d) == (2 * n + d) \div (2 * d)

\* the smaller of the fractions a[1] / a[2] and b[1] / b[2]
MinFraction(a, b) == IF a[1] * b[2] <= b[1] * a[2] THEN a ELSE b

\* faulty variant: the image is scaled up to fill the available box
ScaleUpscaling(w, h, availableWidth, availableHeight) ==
    MinFraction(<< availableWidth, w >>, << availableHeight, h >>)

\* img.onload: Math.min(scaleX, scaleY, 1), as a fraction
Scale(w, h, availableWidth, availableHeight) ==
    MinFraction(MinFraction(<< availableWidth, w >>, << availableHeight, h >>),
                << 1, 1 >>)

\* img.onload: the canvas size for an image of w x h in the container
FitSize(w, h, container) ==
    LET scale == Scale(w, h, AvailableWidth(container), AvailableHeight(container))
    IN  [width |-> Round(w * scale[1], scale[2]),
         height |-> Round(h * scale[1], scale[2])]

\* faulty variant: the provisional shape is drawn under the list
RenderCanvasProvisionalFirst(anns, current, selected) ==
    LET allAnnotations ==
            IF current # NullAnnotation THEN << current >> \o anns ELSE anns
    IN  [ i \in 1..Len(allAnnotations) |->
            [shape |-> allAnnotations[i],
             isSelected |-> allAnnotations[i].id = selected] ]

\* renderCanvas: the drawAnnotation calls it makes over the image, in order
RenderCanvas(anns, current, selected) ==
    LET allAnnotations ==
            IF current # NullAnnotation THEN Append(anns, current) ELSE anns
    IN  [ i \in 1..Len(allAnnotations) |->
            [shape |-> allAnnotations[i],
             isSelected |-> allAnnotations[i].id = selected] ]

\* the pixels of the canvas once the render effect has run: the image with
\* the annotations drawn over it; nothing is drawn before the image loads
Canvas ==
    ImageOf("composite", canvasSize.width, canvasSize.height,
            IF imageLoaded
            THEN image.baked \o RenderCanvas(annotations, currentAnnotation, selectedId)
            ELSE << >>)

\* the image a session resumed on stored annotations works on: the editor
\* stored the flattened canvas of the earlier session as the attachment
StoredImage(anns) ==
    IF anns = << >>
    THEN Screenshot
    ELSE ImageOf("composite", 750, 600, RenderCanvas(anns, NullAnnotation, NoId))

----
(* History bookkeeping *)

\* hist.owed: committed mutations not yet answered by an undo; hist.undoing:
\* an undo has been made; Broken: the run is no longer "mutations, then undos"
Broken == [ok |-> FALSE, owed |-> 0, undoing |-> FALSE]

\* a committed mutation: counted while no undo has been made yet
Committed ==
    IF hist.ok /\ ~hist.undoing THEN [hist EXCEPT !.owed = @ + 1] ELSE Broken

\* an undo: counted while it answers one of the committed mutations
Undone ==
    IF hist.ok /\ hist.owed > 0
    THEN [hist EXCEPT !.owed = @ - 1, !.undoing = TRUE]
    ELSE Broken

\* how far the run is into "add a shape, set its label, undo, redo", each
\* step directly after the one before
Chained(op) ==
    IF op = "add" THEN 1
    ELSE IF op = "label" /\ chain = 1 THEN 2
    ELSE IF op = "undo" /\ chain = 2 THEN 3
    ELSE IF op = "undo;redo" /\ chain = 3 THEN 4
    ELSE 0

Log(op, prev, h, point) ==
    /\ steps < MaxSteps
    /\ chain' = Chained(op)
    /\ steps' = steps + 1
    /\ lastOp' = op
    /\ prevAnnotations' = prev
    /\ hist' = h
    /\ lastPoint' = point
    /\ UNCHANGED startAnnotations

Record(op, prev, h) == Log(op, prev, h, NoPoint)

Note(op) == Record(op, << >>, hist)

----
(* Initial state: the component mounts on an attachment *)

----
(* The capture buffers of the content script *)

MAX_CONSOLE_LOGS == 100
MAX_NETWORK_ERRORS == 50

\* addLog keeps this much of a message, and this much of a stack
MessageLimit == 2000
StackLimit == 1000

\* a text of the page is known by its length; an absent stack is NoStack
NoStack == [length |-> -1]
TextOf(n) == [length |-> n]

\* message.length > 2000 ? message.slice(0, 2000) + '...' : message
Truncate(text) ==
    IF text.length > MessageLimit THEN TextOf(MessageLimit + 3) ELSE text

\* stack?.slice(0, 1000)
SliceStack(stack) ==
    IF stack = NoStack THEN NoStack
    ELSE IF stack.length > StackLimit THEN TextOf(StackLimit) ELSE stack

\* faulty variant: the newest entries are dropped when the buffer is full
EvictNewest(buffer, max) ==
    IF Len(buffer) > max THEN SubSeq(buffer, 1, max) ELSE buffer

RECURSIVE Evict(_, _)
\* while (buffer.length > max) buffer.shift()
Evict(buffer, max) ==
    IF Len(buffer) > max THEN Evict(Tail(buffer), max) ELSE buffer

\* addLog: the buffer after the call; the time of the call stands in for
\* a missing timestamp
AddLog(buffer, level, text, stack, timestamp, now) ==
    Evict(Append(buffer,
                 [level |-> level,
                  message |-> Truncate(text),
                  timestamp |-> IF timestamp # 0 THEN timestamp ELSE now,
                  stack |-> SliceStack(stack)]),
          MAX_CONSOLE_LOGS)

\* addNetworkError: the buffer after the call
AddNetworkError(buffer, error) ==
    IF error.url = "chrome-extension://"
    THEN buffer
    ELSE Evict(Append(buffer, error), MAX_NETWORK_ERRORS)

\* The page decides what arrives.  A page is known by its period: every
\* period-th console message is overlong and comes without a timestamp, every
\* period-th failed request goes to a URL of the extension.
Periods == { 4, 5 }
Levels == << "log", "warn", "error" >>

\* the detail of the n-th '__issuemaker_console__' event
ConsoleEventDetail(n, period) ==
    [level |-> Levels[(n % 3) + 1],
     message |-> IF n % period = 0 THEN TextOf(MessageLimit + 500) ELSE TextOf(20 + n),
     stack |-> IF n % 2 = 0 THEN NoStack ELSE TextOf(StackLimit + n),
     timestamp |-> IF n % period = 0 THEN 0 ELSE n]

\* the n-th failed request the patched fetch and XMLHttpRequest see
FailedRequest(n, period) ==
    [url |-> IF n % period = 0 THEN "chrome-extension://" ELSE "https://",
     method |-> IF n % 2 = 0 THEN "GET" ELSE "POST",
     status |-> 400 + (n % 5),
     timestamp |-> n]

\* what a call returned: nothing (void), or a value
NoResult == [returned |-> FALSE, value |-> << >>]
Returned(v) == [returned |-> TRUE, value |-> v]

\* the content script has been injected and nothing has arrived
CaptureIdle ==
    /\ logs = << >>
    /\ networkErrors = << >>
    /\ added \in [logs : { 0 }, errors : { 0 }, period : { 4 }]
    /\ result = NoResult

\* the listener of '__issuemaker_console__'
ConsoleEvent ==
    /\ added.logs < MaxLogsAdded
    /\ LET n == added.logs + 1
           detail == ConsoleEventDetail(n, added.period)
       IN  /\ logs' = AddLog(logs, detail.level, detail.message, detail.stack,
                              detail.timestamp, n)
           /\ added' = [added EXCEPT !.logs = n]
    /\ result' = NoResult
    /\ UNCHANGED << networkErrors, editor, background, handover >>

\* the patched fetch and XMLHttpRequest on a failed request
RequestFailed ==
    /\ added.errors < MaxErrorsAdded
    /\ LET n == added.errors + 1
       IN  /\ networkErrors' = AddNetworkError(networkErrors,
                                                FailedRequest(n, added.period))
           /\ added' = [added EXCEPT !.errors = n]
    /\ result' = NoResult
    /\ UNCHANGED << logs, editor, background, handover >>

\* getConsoleLogs: return [...logs]
GetConsoleLogs ==
    /\ result' = Returned([i \in 1..Len(logs) |-> logs[i]])
    /\ UNCHANGED << logs, networkErrors, added, editor, background, handover >>

\* getNetworkErrors: return [...networkErrors]
GetNetworkErrors ==
    /\ result' = Returned([i \in 1..Len(networkErrors) |-> networkErrors[i]])
    /\ UNCHANGED << logs, networkErrors, added, editor, background, handover >>

----
(* The background worker *)

\* DEFAULT_SETTINGS, and settings with a key and a token
SettingsOf(key, token) == [geminiApiKey |-> key, githubToken |-> token]
DEFAULT_SETTINGS == SettingsOf("", "")
AllSettings == { SettingsOf(key, token) : key \in { "", "key" }, token \in { "", "token" } }

\* a MessageResponse; its data is kept as a sequence of at most one value
Success(data) == [success |-> TRUE, data |-> data, error |-> ""]
Failure(error) == [success |-> FALSE, data |-> << >>, error |-> error]
NoResponse == [success |-> FALSE, data |-> << >>, error |-> "none"]

\* a call of the GitHub or Gemini API: the function, the token or key it is
\* given, the attachment it uploads (0: none) and the issue body it sends
ApiCall(api, credential, index, body) ==
    [api |-> api, credential |-> credential, index |-> index, body |-> body]

\* how an async function ends: its calls, and its promise resolved with a
\* value or rejected with an error
Resolved(calls, value) == [calls |-> calls, state |-> "resolved", value |-> value]
Rejected(calls, error) == [calls |-> calls, state |-> "rejected", value |-> Failure(error)]

\* what lies beyond the worker: whether the one chrome or API call of the
\* request succeeds, and which of the uploads do
Worlds ==
    [ok : BOOLEAN, uploads : [1..MaxAttachments -> BOOLEAN]]
Calm == [ok |-> TRUE, uploads |-> [i \in 1..MaxAttachments |-> TRUE]]

\* an attachment of a draft: its type and whether it has a dataUrl
Attachment(type, url) == [type |-> type, dataUrl |-> url]
AttachmentLists ==
    { << >>,
      << Attachment("screenshot", "data") >>,
      << Attachment("screenshot", "data"), Attachment("image", "data") >>,
      << Attachment("screenshot", ""), Attachment("image", "data") >>,
      << Attachment("image", "data"), Attachment("screenshot", "data") >>,
      << Attachment("screenshot", "data"), Attachment("image", ""),
         Attachment("image", "data") >>,
      << Attachment("image", "data"), Attachment("image", "data"),
         Attachment("screenshot", "data") >> }

MessageTypes ==
    { "GET_SETTINGS", "SAVE_SETTINGS", "CAPTURE_SCREENSHOT", "CAPTURE_SCREENSHOT_NOW",
      "GENERATE_ISSUE", "CREATE_GITHUB_ISSUE", "CREATE_GITHUB_ISSUE_WITH_IMAGES",
      "GET_REPO_LABELS", "GET_USER_REPOS", "SAVE_DRAFT", "GET_DRAFT", "CLEAR_DRAFT" }

\* a message: its type, and of its payload the settings to save and the
\* attachments of the issue
Message(type, newSettings, attachments) ==
    [type |-> type, settings |-> newSettings, attachments |-> attachments]
NoMessage == Message("none", DEFAULT_SETTINGS, << >>)

Messages ==
    { Message(type, DEFAULT_SETTINGS, << >>) :
        type \in (MessageTypes \cup { "PING" })
                    \ { "SAVE_SETTINGS", "CREATE_GITHUB_ISSUE_WITH_IMAGES" } }
    \cup { Message("SAVE_SETTINGS", st, << >>) : st \in AllSettings }
    \cup { Message("CREATE_GITHUB_ISSUE_WITH_IMAGES", DEFAULT_SETTINGS, list) :
              list \in AttachmentLists }

\* the part of the world a message of this type meets
WorldsFor(msg) ==
    CASE msg.type = "CREATE_GITHUB_ISSUE_WITH_IMAGES" -> Worlds
      [] msg.type \in { "CAPTURE_SCREENSHOT", "CAPTURE_SCREENSHOT_NOW", "GENERATE_ISSUE",
                        "CREATE_GITHUB_ISSUE", "GET_REPO_LABELS" }
            -> { [Calm EXCEPT !.ok = ok] : ok \in BOOLEAN }
      [] OTHER -> { Calm }

HandleGetSettings(stored) == Resolved(<< >>, Success(<< stored >>))

HandleSaveSettings == Resolved(<< >>, Success(<< >>))

\* handleCaptureScreenshot and handleCaptureScreenshotNow catch the failure
\* of chrome.tabs themselves
HandleCaptureScreenshot(world) ==
    IF world.ok
    THEN Resolved(<< >>, Success(<< "png" >>))
    ELSE Resolved(<< >>, Failure("Screenshot capture failed"))

\* handleGenerateIssue of the worker
HandleGenerateIssueMessage(stored, world) ==
    IF stored.geminiApiKey = ""
    THEN Resolved(<< >>, Failure("Gemini API key not configured"))
    ELSE LET calls == << ApiCall("generateIssue", stored.geminiApiKey, 0, << >>) >>
         IN  IF world.ok
             THEN Resolved(calls, Success(<< "aiDraft" >>))
             ELSE Rejected(calls, "Gemini API error")

HandleCreateGitHubIssue(stored, world) ==
    IF stored.githubToken = ""
    THEN Resolved(<< >>, Failure("GitHub token not configured"))
    ELSE LET calls == << ApiCall("createIssue", stored.githubToken, 0, << >>) >>
         IN  IF world.ok
             THEN Resolved(calls, Success(<< "createdIssue" >>))
             ELSE Rejected(calls, "GitHub API error")

\* faulty variant: the first failed upload ends the loop
UploadsUntilFailure(attachments, world) ==
    LET tried == { i \in 1..Len(attachments) :
                     /\ attachments[i].dataUrl # ""
                     /\ \A j \in 1..(i - 1) :
                           attachments[j].dataUrl # "" => world.uploads[j] }
    IN  [ k \in 1..Cardinality(tried) |->
            CHOOSE i \in tried : Cardinality({ j \in tried : j < i }) = k - 1 ]

\* the for loop of handleCreateGitHubIssueWithImages: the attachments
\* uploadImageToRepo is called for, in the order of the calls
Uploads(attachments, world) ==
    LET tried == { i \in 1..Len(attachments) : attachments[i].dataUrl # "" }
    IN  [ k \in 1..Cardinality(tried) |->
            CHOOSE i \in tried : Cardinality({ j \in tried : j < i }) = k - 1 ]

\* imageUrls: the url of upload i is known by i
ImageUrls(attachments, world) ==
    SelectSeq(Uploads(attachments, world), LAMBDA i : world.uploads[i])

\* the image links appended to the body, in order
ImageLinks(attachments, imageUrls) ==
    [ index \in 1..Len(imageUrls) |->
        [label |-> IF attachments[index].type = "screenshot"
                   THEN "Screenshot" ELSE "Image",
         number |-> index,
         url |-> imageUrls[index]] ]

\* faulty variant: the issue is created without asking for the token
HandleCreateGitHubIssueWithImagesUnchecked(stored, attachments, world) ==
    LET uploads == Uploads(attachments, world)
        body == ImageLinks(attachments, ImageUrls(attachments, world))
        calls == [ k \in 1..Len(uploads) |->
                     ApiCall("uploadImageToRepo", stored.githubToken, uploads[k], << >>) ]
                 \o << ApiCall("createIssue", stored.githubToken, 0, body) >>
    IN  IF world.ok
        THEN Resolved(calls, Success(<< "createdIssue" >>))
        ELSE Rejected(calls, "GitHub API error")

HandleCreateGitHubIssueWithImages(stored, attachments, world) ==
    IF stored.githubToken = ""
    THEN Resolved(<< >>, Failure("GitHub token not configured"))
    ELSE LET uploads == Uploads(attachments, world)
             body == ImageLinks(attachments, ImageUrls(attachments, world))
             calls == [ k \in 1..Len(uploads) |->
                          ApiCall("uploadImageToRepo", stored.githubToken,
                                  uploads[k], << >>) ]
                      \o << ApiCall("createIssue", stored.githubToken, 0, body) >>
         IN  IF world.ok
             THEN Resolved(calls, Success(<< "createdIssue" >>))
             ELSE Rejected(calls, "GitHub API error")

HandleGetRepoLabels(stored, world) ==
    IF stored.githubToken = ""
    THEN Resolved(<< >>, Failure("GitHub token not configured"))
    ELSE LET calls == << ApiCall("getRepoLabels", stored.githubToken, 0, << >>) >>
         IN  IF world.ok
             THEN Resolved(calls, Success(<< "labels" >>))
             ELSE Rejected(calls, "GitHub API error")

\* handleSaveDraft, handleGetDraft, handleClearDraft
HandleDraft == Resolved(<< >>, Success(<< >>))

\* handleMessage for every type but GET_USER_REPOS with a token: "return
\* handleX(...)" hands the promise of the handler on as it is, so that the
\* catch block sees no rejection of a handler
HandleMessage(msg, stored, world) ==
    CASE msg.type = "GET_SETTINGS" -> HandleGetSettings(stored)
      [] msg.type = "SAVE_SETTINGS" -> HandleSaveSettings
      [] msg.type \in { "CAPTURE_SCREENSHOT", "CAPTURE_SCREENSHOT_NOW" }
            -> HandleCaptureScreenshot(world)
      [] msg.type = "GENERATE_ISSUE" -> HandleGenerateIssueMessage(stored, world)
      [] msg.type = "CREATE_GITHUB_ISSUE" -> HandleCreateGitHubIssue(stored, world)
      [] msg.type = "CREATE_GITHUB_ISSUE_WITH_IMAGES"
            -> HandleCreateGitHubIssueWithImages(stored, msg.attachments, world)
      [] msg.type = "GET_REPO_LABELS" -> HandleGetRepoLabels(stored, world)
      [] msg.type = "GET_USER_REPOS"
            -> Resolved(<< >>, Failure("GitHub token not configured"))
      [] msg.type \in { "SAVE_DRAFT", "GET_DRAFT", "CLEAR_DRAFT" } -> HandleDraft
      [] OTHER -> Resolved(<< >>, Failure("Unknown message type"))

\* the onMessage listener: sendResponse gets the value of the promise, or
\* the failure made of the error it was rejected with
Listener(outcome) ==
    IF outcome.state = "resolved" THEN outcome.value
    ELSE Failure(outcome.value.error)

NotFetching == [active |-> FALSE, page |-> 1, repos |-> << >>]
Unsettled == [state |-> "pending", value |-> NoResponse]

BackgroundIdle ==
    /\ settings = DEFAULT_SETTINGS
    /\ message = NoMessage
    /\ apiCalls = << >>
    /\ fetching = NotFetching
    /\ settled = Unsettled
    /\ response = NoResponse

\* a message arrives at the listener and is handled to its end; for
\* GET_USER_REPOS with a token, up to the first page request of fetchUserRepos
OnMessage(msg, world) ==
    /\ ~fetching.active
    /\ message' = msg
    /\ settings' = IF msg.type = "SAVE_SETTINGS" THEN msg.settings ELSE settings
    /\ IF msg.type = "GET_USER_REPOS" /\ settings.githubToken # ""
       THEN /\ fetching' = [active |-> TRUE, page |-> 1, repos |-> << >>]
            /\ apiCalls' = << >>
            /\ settled' = Unsettled
            /\ response' = NoResponse
       ELSE LET outcome == HandleMessage(msg, settings, world)
            IN  /\ apiCalls' = outcome.calls
                /\ settled' = [state |-> outcome.state, value |-> outcome.value]
                /\ response' = Listener(outcome)
                /\ fetching' = NotFetching
    /\ UNCHANGED << editor, capture, handover >>

\* fetchUserRepos
PerPage == 100
MaxPages == 5

PageKinds == { "full", "partial", "empty", "error" }

\* the repositories of a page of the given kind; every third one is
\* read-only, the others can be pushed to or administered
PageData(kind, page) ==
    LET length == CASE kind = "full" -> PerPage
                    [] kind = "partial" -> 37
                    [] OTHER -> 0
    IN  [ i \in 1..length |->
            [full_name |-> << page, i >>,
             push |-> i % 3 = 1,
             admin |-> i % 3 = 2] ]

\* faulty variant: a page that is not full is followed by the next one
EndsAtShortPageNever(data) == FALSE

\* if (data.length < perPage) break
EndsAtShortPage(data) == Len(data) < PerPage

\* one turn of the while loop of fetchUserRepos: the request of a page and
\* what follows from its response
FetchPage(kind) ==
    /\ fetching.active
    /\ fetching.page <= MaxPages
    /\ apiCalls' = Append(apiCalls,
                          ApiCall("fetch /user/repos", settings.githubToken,
                                  fetching.page, << >>))
    /\ LET data == PageData(kind, fetching.page)
           pushed == SelectSeq(data, LAMBDA repo : repo.push \/ repo.admin)
           repos == fetching.repos \o [ i \in 1..Len(pushed) |-> pushed[i].full_name ]
           return(list) ==
               /\ fetching' = [active |-> FALSE, page |-> fetching.page, repos |-> list]
               /\ settled' = [state |-> "resolved", value |-> Success(<< list >>)]
               /\ response' = Success(<< list >>)
       IN  IF kind = "error"
           THEN IF fetching.page = 1
                THEN /\ fetching' = [fetching EXCEPT !.active = FALSE]
                     /\ settled' = [state |-> "rejected",
                                    value |-> Failure("GitHub API error")]
                     /\ response' = Failure("GitHub API error")
                ELSE return(fetching.repos)
           ELSE IF Len(data) = 0
                THEN return(fetching.repos)
                ELSE IF EndsAtShortPage(data) \/ fetching.page + 1 > MaxPages
                     THEN return(repos)
                     ELSE /\ fetching' = [fetching EXCEPT !.page = @ + 1,
                                                          !.repos = repos]
                          /\ UNCHANGED << settled, response >>
    /\ UNCHANGED << settings, message, editor, capture, handover >>

----
(* The hand-over of a capture to the editor tab *)

\* the capture triggers: a press of the popup button, the context menu, the
\* keyboard shortcut or the toolbar icon; the screenshot and the context a
\* trigger captures are known by the trigger
Triggers == 1..MaxTriggers

\* the issuemaker_pending_* keys of chrome.storage.session
Pending(screenshot, context) ==
    [present |-> TRUE, screenshot |-> screenshot, context |-> context]
NoPending == [present |-> FALSE, screenshot |-> 0, context |-> 0]

\* what an editor tab shows: nothing yet, its draft, or the error
\* 'No screenshot found'
NotLoaded == [state |-> "loading", screenshot |-> 0, context |-> 0]
LoadedWith(stored) ==
    [state |-> "draft", screenshot |-> stored.screenshot, context |-> stored.context]
NothingFound == [state |-> "error", screenshot |-> 0, context |-> 0]

HandoverIdle ==
    /\ pending = NoPending
    /\ pc = [t \in Triggers |-> "idle"]
    /\ loaded = [t \in Triggers |-> NotLoaded]

\* captureAndOpenEditor / handleNewIssue: the screenshot and the page
\* context have been captured
Capture(t) ==
    /\ pc[t] = "idle"
    /\ pc' = [pc EXCEPT ![t] = "captured"]
    /\ UNCHANGED << pending, loaded, editor, capture, background >>

\* await chrome.storage.session.set({ issuemaker_pending_screenshot, ... })
StorePending(t) ==
    /\ pc[t] = "captured"
    /\ pending' = Pending(t, t)
    /\ pc' = [pc EXCEPT ![t] = "stored"]
    /\ UNCHANGED << loaded, editor, capture, background >>

\* chrome.tabs.create: the editor tab opens and initializeEditor starts,
\* waiting for the settings
CreateTab(t) ==
    /\ pc[t] = "stored"
    /\ pc' = [pc EXCEPT ![t] = "opened"]
    /\ UNCHANGED << pending, loaded, editor, capture, background >>

\* initializeEditor: await chrome.storage.session.get([...]) and the check
\* of the screenshot
ReadPending(t) ==
    /\ pc[t] = "opened"
    /\ IF pending.present
       THEN /\ loaded' = [loaded EXCEPT ![t] = LoadedWith(pending)]
            /\ pc' = [pc EXCEPT ![t] = "read"]
       ELSE /\ loaded' = [loaded EXCEPT ![t] = NothingFound]
            /\ pc' = [pc EXCEPT ![t] = "done"]
    /\ UNCHANGED << pending, editor, capture, background >>

\* initializeEditor: await chrome.storage.session.remove([...])
ClearPending(t) ==
    /\ pc[t] = "read"
    /\ pending' = NoPending
    /\ pc' = [pc EXCEPT ![t] = "done"]
    /\ UNCHANGED << loaded, editor, capture, background >>

\* nothing outside the editor has happened
OutsideIdle ==
    /\ CaptureIdle
    /\ BackgroundIdle
    /\ HandoverIdle

----
(* The editor *)

Mounted ==
    /\ color = "#ef4444"
    /\ redoStack = << >>
    /\ selectedId = NoId
    /\ isDrawing = FALSE
    /\ currentAnnotation = NullAnnotation
    /\ commentPopup = ClosedPopup
    /\ textInput = ClosedInput
    /\ parent = annotations
    /\ nextId = 4
    /\ startAnnotations = annotations
    /\ lastOp = "init"
    /\ prevAnnotations = << >>
    /\ hist = [ok |-> TRUE, owed |-> 0, undoing |-> FALSE]
    /\ lastPoint = NoPoint
    /\ chain = 0
    /\ steps = 0

\* the image of the attachment has loaded
Loaded ==
    /\ dataUrl = StoredImage(annotations)
    /\ image = dataUrl
    /\ imageLoaded = TRUE
    /\ canvasSize = FitSize(image.width, image.height, Container)

Init ==
    /\ tool = "arrow"
    /\ annotations \in StoredLists
    /\ Mounted
    /\ Loaded
    /\ OutsideIdle

----
(* Handlers *)

\* A press on a toolbar button takes the focus from the inline text input,
\* whose onBlur runs handleTextSubmit first: the toolbar handlers run with
\* the text input closed.

SetTool(t) ==
    /\ ~textInput.visible
    /\ tool' = t
    /\ UNCHANGED << color, annotations, redoStack, selectedId, isDrawing,
                    currentAnnotation, commentPopup, textInput, parent, nextId >>
    /\ Note("tool")
    /\ UNCHANGED << session, outside >>

\* faulty variant: the shapes of the list are repainted in the chosen color
SetColorRepaints(c) ==
    /\ ~textInput.visible
    /\ color' = c
    /\ annotations' = [ i \in 1..Len(annotations) |->
                          [annotations[i] EXCEPT !.color = c] ]
    /\ parent' = UpdateParent(annotations')
    /\ UNCHANGED << tool, redoStack, selectedId, isDrawing,
                    currentAnnotation, commentPopup, textInput, nextId >>
    /\ Note("color")
    /\ UNCHANGED << session, outside >>

SetColor(c) ==
    /\ ~textInput.visible
    /\ color' = c
    /\ UNCHANGED << tool, annotations, redoStack, selectedId, isDrawing,
                    currentAnnotation, commentPopup, textInput, parent, nextId >>
    /\ Note("color")
    /\ UNCHANGED << session, outside >>

\* faulty variant: starting a drag keeps the selection
HandleMouseDownKeepsSelection(point) ==
    /\ commentPopup' = IF commentPopup.visible THEN ClosedPopup ELSE commentPopup
    /\ \/ /\ tool = "select"
          /\ selectedId' = FindAnnotationAt(annotations, point).id
          /\ UNCHANGED << isDrawing, currentAnnotation, textInput, nextId >>
          /\ Log("select", << >>, hist, point)
       \/ /\ tool = "text"
          /\ textInput' = [visible |-> TRUE, x |-> point.x, y |-> point.y,
                           value |-> << >>]
          /\ UNCHANGED << selectedId, isDrawing, currentAnnotation, nextId >>
          /\ Note("textopen")
       \/ /\ tool \notin { "select", "text" }
          /\ isDrawing' = TRUE
          /\ currentAnnotation' =
                Shape(nextId, tool, point.x, point.y, point.x, point.y, color, NoText)
          /\ nextId' = nextId + 1
          /\ UNCHANGED << selectedId, textInput >>
          /\ Note("down")
    /\ UNCHANGED << tool, color, annotations, redoStack, parent >>
    /\ UNCHANGED << session, outside >>

HandleMouseDown(point) ==
    /\ commentPopup' = IF commentPopup.visible THEN ClosedPopup ELSE commentPopup
    /\ \/ /\ tool = "select"
          /\ selectedId' = FindAnnotationAt(annotations, point).id
          /\ UNCHANGED << isDrawing, currentAnnotation, textInput, nextId >>
          /\ Log("select", << >>, hist, point)
       \/ /\ tool = "text"
          /\ textInput' = [visible |-> TRUE, x |-> point.x, y |-> point.y,
                           value |-> << >>]
          /\ UNCHANGED << selectedId, isDrawing, currentAnnotation, nextId >>
          /\ Note("textopen")
       \/ /\ tool \notin { "select", "text" }
          /\ isDrawing' = TRUE
          /\ selectedId' = NoId
          /\ currentAnnotation' =
                Shape(nextId, tool, point.x, point.y, point.x, point.y, color, NoText)
          /\ nextId' = nextId + 1
          /\ UNCHANGED textInput
          /\ Note("down")
    /\ UNCHANGED << tool, color, annotations, redoStack, parent >>
    /\ UNCHANGED << session, outside >>

HandleMouseMove(point) ==
    /\ isDrawing
    /\ currentAnnotation # NullAnnotation
    /\ currentAnnotation' =
          [currentAnnotation EXCEPT !.endX = point.x, !.endY = point.y]
    /\ UNCHANGED << tool, color, annotations, redoStack, selectedId, isDrawing,
                    commentPopup, textInput, parent, nextId >>
    /\ Note("move")
    /\ UNCHANGED << session, outside >>

\* faulty variant: the comment popup opens for every committed shape
HandleMouseUpPromptsAll ==
    /\ isDrawing
    /\ currentAnnotation # NullAnnotation
    /\ isDrawing' = FALSE
    /\ currentAnnotation' = NullAnnotation
    /\ IF TooSmall(currentAnnotation)
       THEN /\ UNCHANGED << annotations, commentPopup, parent >>
            /\ Note("discard")
       ELSE /\ annotations' = Append(annotations, currentAnnotation)
            /\ commentPopup' =
                  [visible |-> TRUE, annotationId |-> currentAnnotation.id]
            /\ parent' = UpdateParent(Append(annotations, currentAnnotation))
            /\ Record("add", annotations, Committed)
    /\ UNCHANGED << tool, color, redoStack, selectedId, textInput, nextId >>
    /\ UNCHANGED << session, outside >>

HandleMouseUp ==
    /\ isDrawing
    /\ currentAnnotation # NullAnnotation
    /\ isDrawing' = FALSE
    /\ currentAnnotation' = NullAnnotation
    /\ IF TooSmall(currentAnnotation)
       THEN /\ UNCHANGED << annotations, commentPopup, parent >>
            /\ Note("discard")
       ELSE /\ annotations' = Append(annotations, currentAnnotation)
            /\ commentPopup' =
                  IF currentAnnotation.type \in { "arrow", "rectangle" }
                  THEN [visible |-> TRUE, annotationId |-> currentAnnotation.id]
                  ELSE commentPopup
            /\ parent' = UpdateParent(Append(annotations, currentAnnotation))
            /\ Record("add", annotations, Committed)
    /\ UNCHANGED << tool, color, redoStack, selectedId, textInput, nextId >>
    /\ UNCHANGED << session, outside >>

\* faulty variant: leaving the canvas ends the drag the way a pointer-up does
HandleMouseLeaveCommits ==
    /\ isDrawing
    /\ isDrawing' = FALSE
    /\ currentAnnotation' = NullAnnotation
    /\ annotations' = Append(annotations, currentAnnotation)
    /\ parent' = UpdateParent(Append(annotations, currentAnnotation))
    /\ UNCHANGED << tool, color, redoStack, selectedId, commentPopup,
                    textInput, nextId >>
    /\ Record("leave", << currentAnnotation >>, hist)
    /\ UNCHANGED << session, outside >>

\* the canvas's onMouseLeave
HandleMouseLeave ==
    /\ isDrawing
    /\ isDrawing' = FALSE
    /\ currentAnnotation' = NullAnnotation
    /\ UNCHANGED << tool, color, annotations, redoStack, selectedId,
                    commentPopup, textInput, parent, nextId >>
    /\ Record("leave", << currentAnnotation >>, hist)
    /\ UNCHANGED << session, outside >>

HandleTextChange(v) ==
    /\ textInput.visible
    /\ textInput' = [textInput EXCEPT !.value = v]
    /\ UNCHANGED << tool, color, annotations, redoStack, selectedId, isDrawing,
                    currentAnnotation, commentPopup, parent, nextId >>
    /\ Note("type")
    /\ UNCHANGED << session, outside >>

\* faulty variant: the typed text is committed without trimming
HandleTextSubmitUntrimmed ==
    /\ textInput.visible
    /\ textInput' = ClosedInput
    /\ IF Truthy(textInput.value)
       THEN /\ LET newAnnotation ==
                       Shape(nextId, "text", textInput.x, textInput.y,
                             Undefined, Undefined, color, textInput.value)
               IN  /\ annotations' = Append(annotations, newAnnotation)
                   /\ parent' = UpdateParent(Append(annotations, newAnnotation))
            /\ nextId' = nextId + 1
            /\ Record("text", annotations, Committed)
       ELSE /\ UNCHANGED << annotations, parent, nextId >>
            /\ Note("textcancel")
    /\ UNCHANGED << tool, color, redoStack, selectedId, isDrawing,
                    currentAnnotation, commentPopup >>
    /\ UNCHANGED << session, outside >>

HandleTextSubmit ==
    /\ textInput.visible
    /\ textInput' = ClosedInput
    /\ IF Truthy(Trim(textInput.value))
       THEN /\ LET newAnnotation ==
                       Shape(nextId, "text", textInput.x, textInput.y,
                             Undefined, Undefined, color, Trim(textInput.value))
               IN  /\ annotations' = Append(annotations, newAnnotation)
                   /\ parent' = UpdateParent(Append(annotations, newAnnotation))
            /\ nextId' = nextId + 1
            /\ Record("text", annotations, Committed)
       ELSE /\ UNCHANGED << annotations, parent, nextId >>
            /\ Note("textcancel")
    /\ UNCHANGED << tool, color, redoStack, selectedId, isDrawing,
                    currentAnnotation, commentPopup >>
    /\ UNCHANGED << session, outside >>

HandleCommentSubmit(text) ==
    /\ commentPopup.visible
    /\ commentPopup' = ClosedPopup
    /\ IF Truthy(Trim(text))
       THEN /\ annotations' = WithText(annotations, commentPopup.annotationId, Trim(text))
            /\ parent' = UpdateParent(WithText(annotations, commentPopup.annotationId, Trim(text)))
            /\ Note("label")
       ELSE /\ UNCHANGED << annotations, parent >>
            /\ Note("nolabel")
    /\ UNCHANGED << tool, color, redoStack, selectedId, isDrawing,
                    currentAnnotation, textInput, nextId >>
    /\ UNCHANGED << session, outside >>

HandleCommentCancel ==
    /\ commentPopup.visible
    /\ commentPopup' = ClosedPopup
    /\ UNCHANGED << tool, color, annotations, redoStack, selectedId, isDrawing,
                    currentAnnotation, textInput, parent, nextId >>
    /\ Note("commentcancel")
    /\ UNCHANGED << session, outside >>

\* handleDelete, from the Delete Selected button or the Delete / Backspace key
HandleDelete ==
    /\ selectedId # NoId
    /\ annotations' = WithoutId(annotations, selectedId)
    /\ selectedId' = NoId
    /\ parent' = UpdateParent(WithoutId(annotations, selectedId))
    /\ Record("delete", annotations, Committed)
    /\ UNCHANGED << tool, color, redoStack, isDrawing, currentAnnotation,
                    commentPopup, textInput, nextId >>
    /\ UNCHANGED << session, outside >>

\* faulty variant: the key deletes the selection while an entry is open
KeyDeleteWhileTyping == HandleDelete

\* handleKeyDown, e.key === 'Delete' || e.key === 'Backspace'
KeyDelete ==
    /\ ~textInput.visible
    /\ ~commentPopup.visible
    /\ HandleDelete

\* the Delete Selected button, rendered while selectedId is set
ClickDelete ==
    /\ ~textInput.visible
    /\ HandleDelete

\* what an Escape key press cancels, for the record of the run
EscapeOp ==
    IF textInput.visible /\ Truthy(Trim(textInput.value)) THEN "escape-text"
    ELSE IF isDrawing THEN "escape-drag"
    ELSE IF commentPopup.visible THEN "escape-comment"
    ELSE "escape"

EscapeOps == { "escape-text", "escape-drag", "escape-comment", "escape" }

\* faulty variant: Escape closes the text input the way Enter and blur do
HandleEscapeSubmitsText ==
    /\ textInput' = ClosedInput
    /\ commentPopup' = ClosedPopup
    /\ selectedId' = NoId
    /\ currentAnnotation' = NullAnnotation
    /\ isDrawing' = FALSE
    /\ IF textInput.visible /\ Truthy(Trim(textInput.value))
       THEN LET newAnnotation ==
                    Shape(nextId, "text", textInput.x, textInput.y,
                          Undefined, Undefined, color, Trim(textInput.value))
            IN  /\ annotations' = Append(annotations, newAnnotation)
                /\ parent' = UpdateParent(Append(annotations, newAnnotation))
                /\ nextId' = nextId + 1
       ELSE UNCHANGED << annotations, parent, nextId >>
    /\ UNCHANGED << tool, color, redoStack >>
    /\ Note(EscapeOp)
    /\ UNCHANGED << session, outside >>

\* handleKeyDown, e.key === 'Escape'; the text input's own onKeyDown makes
\* the same setTextInput call when the key is pressed inside it
HandleEscape ==
    /\ textInput' = ClosedInput
    /\ commentPopup' = ClosedPopup
    /\ selectedId' = NoId
    /\ currentAnnotation' = NullAnnotation
    /\ isDrawing' = FALSE
    /\ UNCHANGED << tool, color, annotations, redoStack, parent, nextId >>
    /\ Note(EscapeOp)
    /\ UNCHANGED << session, outside >>

\* the Undo button is disabled while annotations is empty
\* faulty variant: the undone shape is dropped instead of kept for redo
HandleUndoForgets ==
    /\ ~textInput.visible
    /\ Len(annotations) # 0
    /\ annotations' = UndoAnnotations(annotations)
    /\ redoStack' = redoStack
    /\ parent' = UpdateParent(UndoAnnotations(annotations))
    /\ Record("undo", annotations, Undone)
    /\ UNCHANGED << ui, nextId >>
    /\ UNCHANGED << session, outside >>

HandleUndo ==
    /\ ~textInput.visible
    /\ Len(annotations) # 0
    /\ annotations' = UndoAnnotations(annotations)
    /\ redoStack' = Append(redoStack, << annotations[Len(annotations)] >>)
    /\ parent' = UpdateParent(UndoAnnotations(annotations))
    /\ Record("undo", annotations, Undone)
    /\ UNCHANGED << ui, nextId >>
    /\ UNCHANGED << session, outside >>

\* the Redo button is disabled while redoStack is empty
HandleRedo ==
    /\ ~textInput.visible
    /\ Len(redoStack) # 0
    /\ annotations' = annotations \o ToRestore(redoStack)
    /\ redoStack' = NewRedoStack(redoStack)
    /\ parent' = UpdateParent(annotations \o ToRestore(redoStack))
    /\ IF lastOp = "undo"
       THEN Record("undo;redo", prevAnnotations, Broken)
       ELSE Record("redo", << >>, Broken)
    /\ UNCHANGED << ui, nextId >>
    /\ UNCHANGED << session, outside >>

\* the Clear All button is disabled while annotations is empty
HandleClear ==
    /\ ~textInput.visible
    /\ Len(annotations) # 0
    /\ annotations' = << >>
    /\ selectedId' = NoId
    /\ redoStack' = << >>
    /\ parent' = UpdateParent(<< >>)
    /\ Record("clear", annotations, Committed)
    /\ UNCHANGED << tool, color, isDrawing, currentAnnotation, commentPopup,
                    textInput, nextId >>
    /\ UNCHANGED << session, outside >>

\* img.onload of the image load effect: it runs once for each dataUrl that
\* decodes; an image that does not decode never calls it
ImgOnLoad(container) ==
    /\ Decodable(dataUrl)
    /\ image # dataUrl
    /\ image' = dataUrl
    /\ canvasSize' = FitSize(dataUrl.width, dataUrl.height, container)
    /\ imageLoaded' = TRUE
    /\ UNCHANGED << ui, annotations, redoStack, parent, nextId, dataUrl >>
    /\ Note("load")
    /\ UNCHANGED outside

\* the editor's handleGenerateIssue up to its request: the canvas is exported
\* and stored as the dataUrl of the attachment; the canvas stays mounted
\* while the request runs and when it fails
HandleGenerateIssue ==
    /\ ~textInput.visible
    /\ dataUrl' = Canvas
    /\ UNCHANGED << ui, annotations, redoStack, parent, nextId, image,
                    imageLoaded, canvasSize >>
    /\ Note("export")
    /\ UNCHANGED outside

\* handleKeyDown for one key press, the presses it ignores included
HandleKeyDown(key) ==
    \/ /\ key \in { "Delete", "Backspace" }
       /\ KeyDelete
    \/ /\ key \in { "Delete", "Backspace" }
       /\ textInput.visible \/ commentPopup.visible \/ selectedId = NoId
       /\ UNCHANGED << ui, annotations, redoStack, parent, nextId >>
       /\ Note("key")
       /\ UNCHANGED << session, outside >>
    \/ /\ key = "Escape"
       /\ HandleEscape

Next ==
    \/ \E t \in Tools : SetTool(t)
    \/ \E c \in Colors : SetColor(c)
    \/ \E p \in Points : HandleMouseDown(p)
    \/ \E p \in Points : HandleMouseMove(p)
    \/ HandleMouseUp
    \/ HandleMouseLeave
    \/ \E v \in TypedTexts : HandleTextChange(v)
    \/ HandleTextSubmit
    \/ \E v \in TypedTexts \cup { << >> } : HandleCommentSubmit(v)
    \/ HandleCommentCancel
    \/ KeyDelete
    \/ ClickDelete
    \/ HandleEscape
    \/ HandleUndo
    \/ HandleRedo
    \/ HandleClear

Spec == Init /\ [][Next]_vars

----
(* Hit testing: the pointer is pressed on stored annotations of many shapes *)

ShapeCoords == { 0, 30, 100 }
HitCoords == { 15, 45, 61 }
HitPoints == { Pt(px, py) : px \in HitCoords, py \in HitCoords }
DrawTypes == { "arrow", "rectangle", "blur" }

\* what handleMouseUp and handleTextSubmit can have stored: a drag of at
\* least 10 px along one axis, or a text
HitShapes(id) ==
    { Shape(id, c[1], c[2], c[3], c[4], c[5], "#ef4444", NoText) :
        c \in { d \in DrawTypes \X ShapeCoords \X ShapeCoords
                        \X ShapeCoords \X ShapeCoords :
                    ~TooSmall(Shape(id, d[1], d[2], d[3], d[4], d[5], "", NoText)) } }
    \cup
    { Shape(id, "text", c[1], c[2], Undefined, Undefined, "#ef4444", << "a" >>) :
        c \in ShapeCoords \X ShapeCoords }

\* the shapes of the two-element lists
PairShapes(id) ==
    { s \in HitShapes(id) :
        /\ s.type \in { "arrow", "text" }
        /\ s.startX = s.startY
        /\ s.type = "arrow" => (s.endX = 30 /\ s.endY \in { 0, 100 }) }

HitLists ==
    { << s >> : s \in HitShapes(1) }
    \cup { << s, t >> : s \in PairShapes(1), t \in PairShapes(2) }

\* the component has mounted on stored annotations and a tool was chosen
InitHit ==
    /\ tool \in { "select", "arrow", "text" }
    /\ annotations \in HitLists
    /\ Mounted
    /\ Loaded
    /\ OutsideIdle

NextHit == \E p \in HitPoints : HandleMouseDown(p)

SpecHit == InitHit /\ [][NextHit]_vars

----
(* Dragging: shapes are drawn between the points of a grid *)

\* from (100,100): a horizontal drag, a vertical drag 5 px off the axis, and
\* a drag under the click threshold
DragPoints == { Pt(100, 100), Pt(200, 100), Pt(105, 200), Pt(105, 105) }

\* the component has mounted and a drawing tool was chosen
InitDrag ==
    /\ tool \in DrawTypes
    /\ annotations \in StoredLists
    /\ Mounted
    /\ Loaded
    /\ OutsideIdle

NextDrag ==
    \/ \E p \in DragPoints : HandleMouseDown(p)
    \/ \E p \in DragPoints : HandleMouseMove(p)
    \/ HandleMouseUp
    \/ HandleMouseLeave

SpecDrag == InitDrag /\ [][NextDrag]_vars

----
(* The session: the image loads, shapes are drawn, the canvas is exported *)

\* the component has mounted on a fresh screenshot that has not loaded yet
InitSession ==
    /\ tool = "arrow"
    /\ annotations = << >>
    /\ Mounted
    /\ dataUrl \in { Screenshot, Corrupt }
    /\ image = NoImage
    /\ imageLoaded = FALSE
    /\ canvasSize = DefaultCanvasSize
    /\ OutsideIdle

NextSession ==
    \/ ImgOnLoad(Container)
    \/ HandleGenerateIssue
    \/ SetTool("select")
    \/ \E p \in Points : HandleMouseDown(p)
    \/ \E p \in Points : HandleMouseMove(p)
    \/ HandleMouseUp
    \/ KeyDelete
    \/ HandleUndo
    \/ HandleRedo

SpecSession == InitSession /\ [][NextSession]_vars

----
(* Loading: images of many sizes load into containers of many sizes *)

NativeSizes == { 1, 3, 800, 1000, 1600 }
Containers ==
    { [clientWidth |-> cw, clientHeight |-> ch] :
        cw \in { 33, 432, 832, 2032 }, ch \in { 81, 680, 1080 } }

InitLoad ==
    /\ tool = "arrow"
    /\ annotations = << >>
    /\ Mounted
    /\ dataUrl \in { ImageOf("screenshot", w, h, << >>) :
                        w \in NativeSizes, h \in NativeSizes }
    /\ image = NoImage
    /\ imageLoaded = FALSE
    /\ canvasSize = DefaultCanvasSize
    /\ OutsideIdle

NextLoad == \E c \in Containers : ImgOnLoad(c)

SpecLoad == InitLoad /\ [][NextLoad]_vars

----
(* Keys: shapes are drawn and selected, entries are opened, keys are pressed *)

Keys == { "Delete", "Backspace", "Escape" }

NextKeys ==
    \/ \E t \in Tools : SetTool(t)
    \/ \E p \in Points : HandleMouseDown(p)
    \/ \E p \in Points : HandleMouseMove(p)
    \/ HandleMouseUp
    \/ \E key \in Keys : HandleKeyDown(key)

SpecKeys == Init /\ [][NextKeys]_vars

----
(* Capture: console events and failed requests arrive, the buffers are read *)

\* the editor is not open
EditorClosed ==
    /\ tool = "arrow"
    /\ annotations = << >>
    /\ Mounted
    /\ dataUrl = Screenshot
    /\ image = NoImage
    /\ imageLoaded = FALSE
    /\ canvasSize = DefaultCanvasSize

InitCapture ==
    /\ EditorClosed
    /\ logs = << >>
    /\ networkErrors = << >>
    /\ added \in [logs : { 0 }, errors : { 0 }, period : Periods]
    /\ result = NoResult
    /\ BackgroundIdle
    /\ HandoverIdle

NextCapture ==
    \/ ConsoleEvent
    \/ RequestFailed
    \/ GetConsoleLogs
    \/ GetNetworkErrors

SpecCapture == InitCapture /\ [][NextCapture]_vars

----
(* The worker: messages arrive and are handled, one after the other *)

InitBackground ==
    /\ EditorClosed
    /\ CaptureIdle
    /\ HandoverIdle
    /\ settings \in AllSettings
    /\ message = NoMessage
    /\ apiCalls = << >>
    /\ fetching = NotFetching
    /\ settled = Unsettled
    /\ response = NoResponse

NextBackground ==
    \/ \E msg \in Messages : \E world \in WorldsFor(msg) : OnMessage(msg, world)
    \/ \E kind \in PageKinds : FetchPage(kind)

SpecBackground == InitBackground /\ [][NextBackground]_vars

----
(* Hand-over: triggers capture and open editor tabs, close together *)

InitHandover ==
    /\ EditorClosed
    /\ CaptureIdle
    /\ BackgroundIdle
    /\ HandoverIdle

NextHandover ==
    \E t \in Triggers :
        \/ Capture(t)
        \/ StorePending(t)
        \/ CreateTab(t)
        \/ ReadPending(t)
        \/ ClearPending(t)

SpecHandover == InitHandover /\ [][NextHandover]_vars

----
(* Claims *)

CommitOps == { "add", "text", "delete", "clear" }

\* C1: after any sequence of committed mutations (shape add, text add,
\* deleteSelected, clearAll) from session start, also of a resumed session,
\* one undo() per committed mutation gives back the list of session start.
C1_UndoAllRestoresStart ==
    (hist.ok /\ hist.undoing /\ hist.owed = 0) => annotations = startAnnotations

\* C2: a committed mutation made after an undo() empties the redo stack, so
\* that a following redo() is a no-op.
C2_MutationEmptiesRedo ==
    lastOp \in CommitOps => redoStack = << >>

\* C3: clearAll() followed by one undo() gives the list that was present
\* before clearAll(), in the same z-order.
C3_ClearThenUndoRestores ==
    lastOp = "clear" => UndoAnnotations(annotations) = prevAnnotations

\* C4: when the most recent committed mutation is a deleteSelected(), the next
\* undo() puts the deleted shape back at its z-position and removes no other
\* shape; when it is an add, undo() removes exactly the added shape.
C4_UndoRevertsLastMutation ==
    [][(lastOp \in { "delete", "add", "text" } /\ lastOp' = "undo")
          => annotations' = prevAnnotations]_vars

\* C5: undo() followed immediately by redo() gives, shape for shape and in
\* the same order, the list that was present just before the undo().
C5_UndoThenRedoRestores ==
    lastOp = "undo;redo" => annotations = prevAnnotations

\* C5 witness: a redo right after an undo, with an older undone batch still
\* on the redo stack.
C5_Witness ==
    /\ lastOp = "undo;redo"
    /\ redoStack # << >>
    /\ Len(annotations) >= 2

\* C6: undo() called when no mutation has been committed since session start
\* leaves AnnotationList unchanged, also in a session resumed with stored
\* annotations.
C6_UndoOnEmptyHistoryIsNoOp ==
    [][(hist.ok /\ ~hist.undoing /\ hist.owed = 0 /\ lastOp' = "undo")
          => annotations' = annotations]_vars

\* the anchor/extent box of the provisional shape is under 10 px wide and
\* under 10 px high
BoxUnder10(ann) ==
    /\ Abs(ann.endX - ann.startX) < 10
    /\ Abs(ann.endY - ann.startY) < 10

\* C7: endPointerUp() on a drag whose bounding box is under 10 px in width
\* and in height adds no shape, emits no persistence snapshot and leaves the
\* redo stack unchanged.
C7_SmallDragCommitsNothing ==
    [][(isDrawing /\ currentAnnotation # NullAnnotation
          /\ BoxUnder10(currentAnnotation)
          /\ lastOp' \in { "add", "discard" })
          => /\ annotations' = annotations
             /\ parent' = parent
             /\ redoStack' = redoStack
             /\ currentAnnotation' = NullAnnotation
             /\ ~isDrawing']_vars

\* C7 witness: a drag was discarded while real entries exist in the list and
\* on the redo stack.
C7_Witness ==
    /\ lastOp = "discard"
    /\ annotations # << >>
    /\ redoStack # << >>

\* the box the claim speaks of: anchor and extent of an Arrow, Rectangle or
\* Blur, the 100x25 box drawn at the anchor of a Text
TrueBox(ann) ==
    IF ann.type = "text"
    THEN [left |-> ann.startX, right |-> ann.startX + 100,
          top |-> ann.startY - 20, bottom |-> ann.startY + 5]
    ELSE [left |-> Min(ann.startX, ann.endX), right |-> Max(ann.startX, ann.endX),
          top |-> Min(ann.startY, ann.endY), bottom |-> Max(ann.startY, ann.endY)]

\* p lies in the box of ann expanded by 10 px on every side
WithinTolerance(ann, p) ==
    LET b == TrueBox(ann)
    IN  /\ p.x >= b.left - 10 /\ p.x <= b.right + 10
        /\ p.y >= b.top - 10 /\ p.y <= b.bottom + 10

\* p lies in the box of ann expanded by 10 px to the left and upward and,
\* for an Arrow, Rectangle or Blur, by 30 px to the right and downward
NearHitBox(ann, p) ==
    LET b == TrueBox(ann)
        far == IF ann.type = "text" THEN 10 ELSE 30
    IN  /\ p.x >= b.left - 10 /\ p.x <= b.right + far
        /\ p.y >= b.top - 10 /\ p.y <= b.bottom + far

TopmostHitId(anns, p) ==
    LET hits == { i \in 1..Len(anns) : HitTest(anns[i], p) }
    IN  IF hits = { } THEN NoId
        ELSE anns[CHOOSE i \in hits : \A j \in hits : j <= i].id

\* C9: with the Select tool, beginPointerDown(p) selects the topmost shape
\* whose tolerance box contains p, clears the selection when there is none,
\* starts no drag and leaves AnnotationList unchanged.
C9_SelectPicksTopmost ==
    [][\A p \in Points :
          (tool = "select" /\ HandleMouseDown(p))
          => /\ selectedId' = TopmostHitId(annotations, p)
             /\ isDrawing' = isDrawing
             /\ currentAnnotation' = currentAnnotation
             /\ annotations' = annotations
             /\ redoStack' = redoStack]_vars

\* C9 witness: a click selected the upper of two shapes that both contain
\* the clicked point.
C9_Witness ==
    /\ lastOp = "select"
    /\ selectedId # NoId
    /\ Cardinality({ i \in 1..Len(annotations) :
                        HitTest(annotations[i], lastPoint) }) >= 2
    /\ selectedId = TopmostHitId(annotations, lastPoint)

\* C10: the Escape key, in any state, discards the provisional shape, closes
\* the text entry and the comment entry without committing, clears the
\* selection, returns to idle, and leaves AnnotationList, the snapshot and
\* the redo stack as they were.
C10_EscapeCancelsEverything ==
    [][(lastOp' \in EscapeOps)
          => /\ currentAnnotation' = NullAnnotation
             /\ ~isDrawing'
             /\ ~textInput'.visible
             /\ ~commentPopup'.visible
             /\ selectedId' = NoId
             /\ annotations' = annotations
             /\ parent' = parent
             /\ redoStack' = redoStack]_vars

\* C10 witness: Escape was pressed on an open text entry holding text.
C10_Witness == lastOp = "escape-text"

\* C11: when the pointer leaves the canvas during a drag, the provisional
\* shape is discarded whatever its size, the list, the snapshot and the redo
\* stack are unchanged, no comment prompt opens, and no shape is committed
\* afterwards without a new drag.
C11_LeaveCancelsDrag ==
    [][/\ (isDrawing /\ lastOp' = "leave")
            => /\ annotations' = annotations
               /\ parent' = parent
               /\ redoStack' = redoStack
               /\ commentPopup' = commentPopup
               /\ ~commentPopup'.visible
               /\ ~isDrawing'
               /\ currentAnnotation' = NullAnnotation
       /\ lastOp = "leave" => lastOp' # "add"
       /\ lastOp' = "add" => (isDrawing /\ currentAnnotation # NullAnnotation)]_vars

\* C11 witness: the pointer left the canvas during a drag of committable
\* size, over a non-empty list.
C11_Witness ==
    /\ lastOp = "leave"
    /\ ~BoxUnder10(prevAnnotations[1])
    /\ annotations # << >>

\* C12: endPointerUp() on a drag at or above the minimum size appends the
\* provisional shape unchanged as the last element of the list, clears the
\* provisional state and the drag mode, and opens the comment prompt for the
\* shape's id exactly when it is an Arrow or a Rectangle.
C12_PointerUpCommitsDrag ==
    [][(isDrawing /\ currentAnnotation # NullAnnotation
          /\ ~BoxUnder10(currentAnnotation)
          /\ lastOp' \in { "add", "discard" })
          => /\ annotations' = Append(annotations, currentAnnotation)
             /\ currentAnnotation' = NullAnnotation
             /\ ~isDrawing'
             /\ commentPopup' =
                   IF currentAnnotation.type \in { "arrow", "rectangle" }
                   THEN [visible |-> TRUE, annotationId |-> currentAnnotation.id]
                   ELSE ClosedPopup]_vars

\* C12 witness: a Blur was committed on top of other shapes and no prompt is
\* open.
C12_Witness ==
    /\ lastOp = "add"
    /\ Len(annotations) >= 2
    /\ annotations[Len(annotations)].type = "blur"
    /\ ~commentPopup.visible

\* the drag spans at least 10 px along one axis and less along the other
SpansOneAxis(ann) ==
    \/ Abs(ann.endX - ann.startX) >= 10 /\ Abs(ann.endY - ann.startY) < 10
    \/ Abs(ann.endX - ann.startX) < 10 /\ Abs(ann.endY - ann.startY) >= 10

\* C13: a drag of at least 10 px along one axis and less than 10 px along the
\* other is committed by endPointerUp(), anchor and extent as dragged.
C13_OneAxisDragCommits ==
    [][(isDrawing /\ currentAnnotation # NullAnnotation
          /\ SpansOneAxis(currentAnnotation)
          /\ lastOp' \in { "add", "discard" })
          => /\ lastOp' = "add"
             /\ annotations' = Append(annotations, currentAnnotation)]_vars

\* C13 witness: the horizontal Arrow from (100,100) to (200,100) is in the
\* list.
C13_Witness ==
    /\ lastOp = "add"
    /\ LET a == annotations[Len(annotations)]
       IN  /\ a.type = "arrow"
           /\ a.startX = 100 /\ a.startY = 100
           /\ a.endX = 200 /\ a.endY = 100

\* t consists of spaces only
AllSpaces(t) == \A i \in 1..Len(t) : t[i] = " "

\* s is t without its leading and trailing spaces
IsTrimOf(s, t) ==
    /\ s = << >> \/ (s[1] # " " /\ s[Len(s)] # " ")
    /\ \E i \in 0..Len(t) :
          /\ i + Len(s) <= Len(t)
          /\ AllSpaces(SubSeq(t, 1, i))
          /\ SubSeq(t, i + 1, i + Len(s)) = s
          /\ AllSpaces(SubSeq(t, i + Len(s) + 1, Len(t)))

TrimmedOf(t) ==
    CHOOSE s \in { SubSeq(t, a, b) : a \in 1..(Len(t) + 1), b \in 0..Len(t) } :
        IsTrimOf(s, t)

\* C14: setShapeLabel(shapeId, text) sets the label of the shape with that id
\* to the trimmed text when that is non-empty, and leaves the whole list
\* unchanged when the text is empty or whitespace only.
C14_LabelSetsTrimmedText ==
    [][\A t \in TypedTexts \cup { << >> } :
          (commentPopup.visible /\ HandleCommentSubmit(t))
          => IF TrimmedOf(t) # << >>
             THEN /\ Len(annotations') = Len(annotations)
                  /\ \A i \in 1..Len(annotations) :
                        annotations'[i] =
                          IF annotations[i].id = commentPopup.annotationId
                          THEN [annotations[i] EXCEPT !.text = TrimmedOf(t)]
                          ELSE annotations[i]
             ELSE annotations' = annotations]_vars

\* C14 witness: a drawn Arrow or Rectangle carries the trimmed label.
C14_Witness ==
    /\ lastOp = "label"
    /\ \E i \in 1..Len(annotations) :
          /\ annotations[i].type \in { "arrow", "rectangle" }
          /\ annotations[i].text = << "a" >>

\* C15: setShapeLabel leaves the redo stack and the length and order of the
\* list unchanged; one undo() after "add a shape, set its label" removes the
\* whole shape, and the redo() that follows brings it back with its label.
C15_LabelIsNoUndoStep ==
    [][/\ lastOp' \in { "label", "nolabel" }
            => /\ redoStack' = redoStack
               /\ Len(annotations') = Len(annotations)
               /\ \A i \in 1..Len(annotations) :
                     annotations'[i].id = annotations[i].id
       /\ chain' = 3
            => /\ annotations' = SubSeq(annotations, 1, Len(annotations) - 1)
               /\ annotations[Len(annotations)].text # NoText
               /\ \A i \in 1..Len(annotations') :
                     annotations'[i].id # annotations[Len(annotations)].id
       /\ chain' = 4
            => /\ annotations' = prevAnnotations
               /\ annotations'[Len(annotations')].text # NoText]_vars

\* C15 witness: a shape was added, labelled, undone and redone.
C15_Witness ==
    /\ chain = 4
    /\ annotations[Len(annotations)].text = << "a" >>

\* C16: deleteSelected() with a shape selected removes exactly that shape,
\* keeps the other shapes in their order and clears the selection; it acts
\* only when a shape is selected.
C16_DeleteRemovesSelected ==
    [][lastOp' = "delete"
          => /\ selectedId # NoId
             /\ annotations' = SelectSeq(annotations, LAMBDA a : a.id # selectedId)
             /\ (\E i \in 1..Len(annotations) : annotations[i].id = selectedId)
                   => Len(annotations') = Len(annotations) - 1
             /\ selectedId' = NoId]_vars

\* C16 witness: a shape below the topmost one was deleted.
C16_Witness ==
    /\ lastOp = "delete"
    /\ Len(prevAnnotations) >= 2
    /\ Len(annotations) = Len(prevAnnotations) - 1
    /\ annotations[Len(annotations)] = prevAnnotations[Len(prevAnnotations)]

\* C17: with the Text tool, beginPointerDown only opens a text entry at the
\* point; committing the entry appends exactly one Text shape (anchor at the
\* entry point, label the trimmed text, active color) when the trimmed text
\* is non-empty and nothing otherwise; an explicit cancel adds no shape; the
\* entry is closed in each case.
C17_TextEntryCommitsOneShape ==
    [][/\ \A p \in Points :
            (tool = "text" /\ HandleMouseDown(p))
            => /\ annotations' = annotations
               /\ parent' = parent
               /\ textInput' = [visible |-> TRUE, x |-> p.x, y |-> p.y,
                                value |-> << >>]
               /\ UNCHANGED << isDrawing, currentAnnotation >>
       /\ (textInput.visible /\ lastOp' \in { "text", "textcancel" })
            => /\ ~textInput'.visible
               /\ IF TrimmedOf(textInput.value) # << >>
                  THEN /\ Len(annotations') = Len(annotations) + 1
                       /\ SubSeq(annotations', 1, Len(annotations)) = annotations
                       /\ LET n == annotations'[Len(annotations')]
                          IN  /\ n.type = "text"
                              /\ n.startX = textInput.x
                              /\ n.startY = textInput.y
                              /\ n.text = TrimmedOf(textInput.value)
                              /\ n.color = color
                              /\ \A i \in 1..Len(annotations) :
                                    annotations[i].id # n.id
                  ELSE annotations' = annotations
       /\ (textInput.visible /\ lastOp' \in EscapeOps)
            => /\ annotations' = annotations
               /\ ~textInput'.visible]_vars

\* C17 witness: a text typed with a leading space was committed in the
\* second color.
C17_Witness ==
    /\ lastOp = "text"
    /\ LET n == annotations[Len(annotations)]
       IN  /\ n.id >= 4
           /\ n.text = << "a" >>
           /\ n.color = "#3b82f6"

\* C18: beginPointerDown(p) with the Arrow, Rectangle or Blur tool creates a
\* provisional shape of that kind with anchor = extent = p and the active
\* color, enters dragging mode, clears the selection and leaves the list and
\* the redo stack unchanged; a provisional shape is never in the list.
C18_PointerDownStartsDrag ==
    [][/\ \A p \in Points :
            (tool \in DrawTypes /\ HandleMouseDown(p))
            => /\ currentAnnotation' # NullAnnotation
               /\ currentAnnotation'.type = tool
               /\ currentAnnotation'.startX = p.x /\ currentAnnotation'.startY = p.y
               /\ currentAnnotation'.endX = p.x /\ currentAnnotation'.endY = p.y
               /\ currentAnnotation'.color = color
               /\ isDrawing'
               /\ selectedId' = NoId
               /\ annotations' = annotations
               /\ redoStack' = redoStack
       /\ (isDrawing' /\ currentAnnotation' # NullAnnotation)
            => \A i \in 1..Len(annotations') :
                  annotations'[i].id # currentAnnotation'.id]_vars

\* C18 witness: a Blur drag has just begun while the redo stack holds a
\* batch.
C18_Witness ==
    /\ lastOp = "down"
    /\ isDrawing
    /\ currentAnnotation.type = "blur"
    /\ redoStack # << >>

\* C19: the ids of the shapes in the list are pairwise distinct in every
\* reachable state.
C19_IdsAreDistinct ==
    \A i, j \in 1..Len(annotations) :
        i # j => annotations[i].id # annotations[j].id

\* C19 witness: a redo put a stored shape back on top of a newly drawn one.
C19_Witness ==
    /\ lastOp = "redo"
    /\ Len(annotations) >= 3
    /\ annotations[Len(annotations)].id < 4
    /\ annotations[Len(annotations) - 1].id >= 4

MutationOps ==
    { "add", "text", "delete", "label", "clear", "undo", "redo", "undo;redo" }

\* C20: after every committed mutation the list last handed to the
\* persistence host equals the live list, and no step changes the live list
\* without handing over the new list.
C20_SnapshotMirrorsList ==
    [][(lastOp' \in MutationOps \/ annotations' # annotations)
          => parent' = annotations']_vars

\* C20 witness: after a delete the snapshot is the shortened, non-empty list.
C20_Witness ==
    /\ lastOp = "delete"
    /\ parent = annotations
    /\ parent # << >>
    /\ Len(parent) < Len(prevAnnotations)

\* every mark of the composite is a shape of the list or the provisional one
CompositeShowsOnlyLiveShapes ==
    \A i \in 1..Len(Canvas.baked) :
        \/ \E j \in 1..Len(annotations) : annotations[j] = Canvas.baked[i].shape
        \/ Canvas.baked[i].shape = currentAnnotation

\* C21: the base image of a session never changes: no step, the export of the
\* flattened composite included, replaces the image of the attachment or the
\* loaded image the annotations are drawn over, so the composite shows no
\* shape that undo or delete has removed from the list.
C21_BaseImageNeverChanges ==
    [][/\ dataUrl' = dataUrl
       /\ imageLoaded => image' = image
       /\ CompositeShowsOnlyLiveShapes']_vars

\* C22: whenever an image is loaded, the list becomes exactly the annotations
\* supplied with the attachment and the redo stack becomes empty.
C22_LoadReplacesListAndHistory ==
    [][lastOp' = "load"
          => /\ annotations' = parent'
             /\ redoStack' = << >>]_vars

\* C23: while the image of the attachment cannot be decoded there is no
\* session: no shape has been added, selected, deleted, undone or redone and
\* no snapshot has been handed to the persistence host.
C23_NoSessionWithoutImage ==
    ~Decodable(dataUrl)
        => /\ ~imageLoaded
           /\ annotations = startAnnotations
           /\ redoStack = << >>
           /\ selectedId = NoId
           /\ parent = startAnnotations

\* size is the fraction scale = p / q of native, rounded half up
IsRounded(size, native, scale) ==
    /\ 2 * (size * scale[2] - native * scale[1]) <= scale[2]
    /\ 2 * (native * scale[1] - size * scale[2]) < scale[2]

\* C24: a load sets the canvas size to (round(nativeW * s), round(nativeH * s))
\* for s the least of availW / nativeW, availH / nativeH and 1; the canvas is
\* never larger than the native image nor than the available box, and a
\* 1000x800 image in an 800x600 box gives a 750x600 canvas.
C24_CanvasFitsImageAndBox ==
    [][\A c \in Containers :
          ImgOnLoad(c) =>
            LET nativeW == dataUrl.width
                nativeH == dataUrl.height
                availW == AvailableWidth(c)
                availH == AvailableHeight(c)
                candidates == { << availW, nativeW >>, << availH, nativeH >>, << 1, 1 >> }
            IN  /\ \E s \in candidates :
                      /\ \A t \in candidates : s[1] * t[2] <= t[1] * s[2]
                      /\ IsRounded(canvasSize'.width, nativeW, s)
                      /\ IsRounded(canvasSize'.height, nativeH, s)
                /\ canvasSize'.width <= nativeW
                /\ canvasSize'.height <= nativeH
                /\ canvasSize'.width <= availW
                /\ canvasSize'.height <= availH
                /\ (nativeW = 1000 /\ nativeH = 800 /\ availW = 800 /\ availH = 600)
                      => canvasSize' = [width |-> 750, height |-> 600]]_vars

\* C24 witness: the 1000x800 image has loaded into a 750x600 canvas, scaled
\* down by the height of the box.
C24_Witness ==
    /\ lastOp = "load"
    /\ imageLoaded
    /\ image.width = 1000
    /\ image.height = 800
    /\ canvasSize = [width |-> 750, height |-> 600]

\* C25: a change of the active tool while a drag is in progress resets the
\* interaction to idle: the drag is over and the provisional shape is gone, so
\* that a following pointer-up has nothing to commit.
C25_ToolChangeCancelsDrag ==
    [][(isDrawing /\ tool' # tool)
          => /\ ~isDrawing'
             /\ currentAnnotation' = NullAnnotation]_vars

\* the pointer modes that hold: a drag, the text entry, the comment entry
PointerModes ==
    { m \in { "dragging", "text-entry", "comment-entry" } :
        \/ m = "dragging" /\ isDrawing
        \/ m = "text-entry" /\ textInput.visible
        \/ m = "comment-entry" /\ commentPopup.visible }

\* C26: the pointer mode is a single value: at most one of a drag in progress,
\* the text entry open and the comment entry open holds in every reachable
\* state, and no step changes the active tool while a text or comment entry is
\* open.
C26_PointerModeIsSingle ==
    [][/\ Cardinality(PointerModes') <= 1
       /\ (textInput.visible \/ commentPopup.visible) => tool' = tool]_vars

\* the shapes of the list and of the batches of the redo stack
ShapesOf(anns, stack) ==
    { anns[i] : i \in 1..Len(anns) }
        \cup UNION { { stack[k][i] : i \in 1..Len(stack[k]) } : k \in 1..Len(stack) }

\* C27: a committed shape keeps its id, kind, anchor, extent and color for
\* good, and only a label step changes its text; selecting a tool changes
\* only the active tool and selecting a color only the active color; a new
\* shape has the color that is active when it is created.
C27_CommittedShapesAreFrozen ==
    [][/\ \A s \in ShapesOf(annotations, redoStack) :
            \A t \in ShapesOf(annotations', redoStack') :
                s.id = t.id =>
                    /\ [t EXCEPT !.text = s.text] = s
                    /\ t.text # s.text => lastOp' = "label"
       /\ \A t \in Tools :
            SetTool(t) => UNCHANGED << color, annotations, redoStack, selectedId,
                                       isDrawing, currentAnnotation, commentPopup,
                                       textInput, parent >>
       /\ \A c \in Colors :
            SetColor(c) => UNCHANGED << tool, annotations, redoStack, selectedId,
                                        isDrawing, currentAnnotation, commentPopup,
                                        textInput, parent >>
       /\ lastOp' = "down" => currentAnnotation'.color = color
       /\ currentAnnotation'.id = currentAnnotation.id
            => currentAnnotation'.color = currentAnnotation.color
       /\ \A t \in ShapesOf(annotations', redoStack') :
            (\A s \in ShapesOf(annotations, redoStack) : s.id # t.id)
                => t.color = IF lastOp' = "text" THEN color
                             ELSE currentAnnotation.color]_vars

\* C27 witness: after the active color was changed to blue a blue shape has
\* been committed on top of a stored red one.
C27_Witness ==
    /\ lastOp = "add"
    /\ Len(annotations) >= 2
    /\ color = "#3b82f6"
    /\ annotations[Len(annotations)].color = "#3b82f6"
    /\ annotations[1].color = "#ef4444"
    /\ annotations[1] = startAnnotations[1]

\* C28: rendering the composite changes no state of the editor (list, redo
\* stack, selection, provisional shape, tool, color); it draws the shapes of
\* the list in list order and then the provisional shape, if any, on top, and
\* the selection outline only for the shape whose id is selected.
C28_RenderDrawsListThenProvisional ==
    [][/\ LET drawn == RenderCanvas(annotations', currentAnnotation', selectedId')
              provisional == IF currentAnnotation' # NullAnnotation THEN 1 ELSE 0
          IN  /\ Len(drawn) = Len(annotations') + provisional
              /\ \A i \in 1..Len(annotations') : drawn[i].shape = annotations'[i]
              /\ provisional = 1 => drawn[Len(drawn)].shape = currentAnnotation'
              /\ \A i \in 1..Len(drawn) :
                    drawn[i].isSelected
                        <=> (selectedId' # NoId /\ drawn[i].shape.id = selectedId')
       /\ HandleGenerateIssue
            => /\ UNCHANGED << annotations, redoStack, selectedId,
                               currentAnnotation, tool, color >>
               /\ imageLoaded
                    => dataUrl'.baked
                         = image.baked
                             \o RenderCanvas(annotations, currentAnnotation, selectedId)]_vars

\* C28 witness: the canvas has been exported during a drag over a committed
\* shape: the composite holds the committed shape and the provisional one
\* above it.
C28_Witness ==
    /\ lastOp = "export"
    /\ imageLoaded
    /\ isDrawing
    /\ currentAnnotation # NullAnnotation
    /\ Len(annotations) = 1
    /\ Len(dataUrl.baked) = 2
    /\ dataUrl.baked[1].shape = annotations[1]
    /\ dataUrl.baked[2].shape = currentAnnotation

RECURSIVE Flatten(_)
\* the shapes of the batches of a stack, bottom batch first
Flatten(stack) ==
    IF stack = << >> THEN << >> ELSE Head(stack) \o Flatten(Tail(stack))

\* how often shape s occurs in the list and the redo stack together
Occurrences(s, anns, stack) ==
    LET all == anns \o Flatten(stack)
    IN  Cardinality({ i \in 1..Len(all) : all[i] = s })

\* C29: undo and redo only move shapes between the list and the redo stack:
\* undo removes exactly the last shape of the list and pushes it as one batch,
\* redo pops the top batch and appends its shapes at the end of the list; the
\* multiset of shapes in list plus redo stack is the same before and after,
\* and no shape id is in the list and in the redo stack at once.
C29_UndoRedoOnlyMoveShapes ==
    [][/\ lastOp' = "undo"
            => /\ annotations # << >>
               /\ annotations' = SubSeq(annotations, 1, Len(annotations) - 1)
               /\ redoStack' = Append(redoStack, << annotations[Len(annotations)] >>)
       /\ lastOp' \in { "redo", "undo;redo" }
            => /\ redoStack # << >>
               /\ annotations' = annotations \o redoStack[Len(redoStack)]
               /\ redoStack' = SubSeq(redoStack, 1, Len(redoStack) - 1)
       /\ lastOp' \in { "undo", "redo", "undo;redo" }
            => \A s \in ShapesOf(annotations, redoStack) \cup ShapesOf(annotations', redoStack') :
                  Occurrences(s, annotations', redoStack')
                      = Occurrences(s, annotations, redoStack)
       /\ \A s \in ShapesOf(annotations', << >>) :
            \A t \in ShapesOf(<< >>, redoStack') : s.id # t.id]_vars

\* C29 witness: two shapes were undone and one of them redone: the list and
\* the redo stack each hold a shape.
C29_Witness ==
    /\ lastOp = "undo;redo"
    /\ annotations # << >>
    /\ Len(redoStack) = 1
    /\ Len(annotations) + Len(Flatten(redoStack)) = Len(startAnnotations)

\* C30: the selected id is, in every reachable state, none or the id of a
\* shape of the list.
C30_SelectionIsInList ==
    \/ selectedId = NoId
    \/ \E i \in 1..Len(annotations) : annotations[i].id = selectedId

DeleteKeys == { "Delete", "Backspace" }

\* C31: while the text entry or the comment entry is open a Delete or
\* Backspace key press removes no shape and leaves the selection alone; with
\* both closed and a shape selected it removes exactly the selected shape.
C31_DeleteKeyRespectsEntries ==
    [][\A key \in DeleteKeys :
          HandleKeyDown(key) =>
            IF textInput.visible \/ commentPopup.visible
            THEN /\ annotations' = annotations
                 /\ selectedId' = selectedId
            ELSE selectedId # NoId
                    => /\ annotations' = SelectSeq(annotations,
                                                    LAMBDA a : a.id # selectedId)
                       /\ Len(annotations') = Len(annotations) - 1]_vars

\* C31 witness: a key press was ignored because the text entry is open,
\* although a shape of the list is selected.
C31_Witness ==
    /\ lastOp = "key"
    /\ textInput.visible
    /\ \E i \in 1..Len(annotations) : annotations[i].id = selectedId

\* the last max elements of a sequence, in their order
MostRecent(seq, max) ==
    IF Len(seq) <= max THEN seq ELSE SubSeq(seq, Len(seq) - max + 1, Len(seq))

\* the entries of all console events so far, in arrival order
LogsAdded ==
    [ n \in 1..added.logs |->
        LET detail == ConsoleEventDetail(n, added.period)
        IN  [level |-> detail.level,
             message |-> Truncate(detail.message),
             timestamp |-> IF detail.timestamp # 0 THEN detail.timestamp ELSE n,
             stack |-> SliceStack(detail.stack)] ]

\* the errors of all failed requests so far, in arrival order
ErrorsAdded == [ n \in 1..added.errors |-> FailedRequest(n, added.period) ]

\* both buffers are read without being changed
ReadsLeaveBuffers ==
    /\ GetConsoleLogs => (result'.value = logs /\ logs' = logs)
    /\ GetNetworkErrors
        => (result'.value = networkErrors /\ networkErrors' = networkErrors)

\* C32 as stated: each capture buffer is a bounded FIFO: the console-log
\* buffer holds at most 100 entries and the network-error buffer at most 50,
\* each exactly the most recent entries added, in arrival order, and
\* getConsoleLogs / getNetworkErrors return that content and leave the buffer
\* as it is.
C32_BuffersHoldMostRecent ==
    [][/\ Len(logs') <= 100
       /\ Len(networkErrors') <= 50
       /\ logs' = MostRecent(LogsAdded', 100)
       /\ networkErrors' = MostRecent(ErrorsAdded', 50)
       /\ ReadsLeaveBuffers]_vars

\* C32 amended: as stated, but an error whose URL is a URL of the extension
\* is never stored: the network-error buffer holds the most recent 50 of the
\* other errors.
C32_BuffersHoldMostRecentStored ==
    [][/\ Len(logs') <= 100
       /\ Len(networkErrors') <= 50
       /\ logs' = MostRecent(LogsAdded', 100)
       /\ networkErrors'
            = MostRecent(SelectSeq(ErrorsAdded',
                                   LAMBDA e : e.url # "chrome-extension://"), 50)
       /\ ReadsLeaveBuffers]_vars

\* C32 witness: both buffers are full and have evicted their oldest entries,
\* and the network errors have just been read.
C32_Witness ==
    /\ added.logs > 100
    /\ Len(logs) = 100
    /\ logs[1].timestamp > 1
    /\ Len(networkErrors) = 50
    /\ networkErrors[1].timestamp > 1
    /\ result = Returned(networkErrors)

\* the attachments of a list that have a data URL
WithDataUrl(attachments) ==
    { i \in 1..Len(attachments) : attachments[i].dataUrl # "" }

\* C33: a CREATE_GITHUB_ISSUE_WITH_IMAGES request handled with a token tries
\* to upload every attachment that has a data URL, in attachment order, before
\* it creates the issue; a failed upload prevents neither the later uploads
\* nor the creation; createIssue is called exactly once, after the last
\* upload, and the response has success:true exactly when that call
\* succeeded.
C33_UploadsThenOneCreate ==
    [][\A msg \in Messages : \A world \in WorldsFor(msg) :
          ( /\ msg.type = "CREATE_GITHUB_ISSUE_WITH_IMAGES"
            /\ settings.githubToken # ""
            /\ OnMessage(msg, world) )
          => LET n == Len(apiCalls')
             IN  /\ n = Cardinality(WithDataUrl(msg.attachments)) + 1
                 /\ \A k \in 1..(n - 1) :
                        /\ apiCalls'[k].api = "uploadImageToRepo"
                        /\ apiCalls'[k].index \in WithDataUrl(msg.attachments)
                        /\ k > 1 => apiCalls'[k - 1].index < apiCalls'[k].index
                 /\ apiCalls'[n].api = "createIssue"
                 /\ response'.success <=> world.ok]_vars

\* C33 witness: of two attachments with a data URL the first upload failed;
\* the second was still tried and the issue was created with one link.
C33_Witness ==
    /\ message.type = "CREATE_GITHUB_ISSUE_WITH_IMAGES"
    /\ Len(message.attachments) = 2
    /\ Len(apiCalls) = 3
    /\ apiCalls[2].api = "uploadImageToRepo"
    /\ apiCalls[3].api = "createIssue"
    /\ Len(apiCalls[3].body) = 1
    /\ apiCalls[3].body[1].url = 2
    /\ response.success

\* C34: in the issue body of CREATE_GITHUB_ISSUE_WITH_IMAGES each image link
\* is labelled 'Screenshot' exactly when the attachment whose upload gave its
\* URL has type 'screenshot', and 'Image' otherwise.
C34_LinkLabelFollowsAttachment ==
    message.type = "CREATE_GITHUB_ISSUE_WITH_IMAGES"
        => \A k \in 1..Len(apiCalls) :
              \A l \in 1..Len(apiCalls[k].body) :
                  LET link == apiCalls[k].body[l]
                  IN  link.label = IF message.attachments[link.url].type = "screenshot"
                                   THEN "Screenshot" ELSE "Image"

\* C35: the promise of handleMessage is never rejected: an unknown type and
\* an error thrown in a handler resolve it with success:false, and it is
\* resolved with success:true only when the handler ran to its end.
C35_HandleMessageNeverRejects ==
    /\ settled.state # "rejected"
    /\ settled.state = "resolved" => settled.value = response

\* the messages that need a credential, and the credential each needs
NeedsGithubToken ==
    { "CREATE_GITHUB_ISSUE", "CREATE_GITHUB_ISSUE_WITH_IMAGES",
      "GET_REPO_LABELS", "GET_USER_REPOS" }
Unconfigured(msg) ==
    \/ msg.type = "GENERATE_ISSUE" /\ settings.geminiApiKey = ""
    \/ msg.type \in NeedsGithubToken /\ settings.githubToken = ""

\* C36: GENERATE_ISSUE, CREATE_GITHUB_ISSUE, CREATE_GITHUB_ISSUE_WITH_IMAGES,
\* GET_REPO_LABELS and GET_USER_REPOS call neither GitHub nor Gemini when the
\* key or token they need is empty in the stored settings; they answer
\* success:false with a 'not configured' error.
C36_NoCallWithoutCredential ==
    [][\A msg \in Messages : \A world \in WorldsFor(msg) :
          (Unconfigured(msg) /\ OnMessage(msg, world))
          => /\ apiCalls' = << >>
             /\ ~fetching'.active
             /\ settled'.state = "resolved"
             /\ ~response'.success
             /\ response'.error = IF msg.type = "GENERATE_ISSUE"
                                  THEN "Gemini API key not configured"
                                  ELSE "GitHub token not configured"]_vars

\* C36 witness: an issue with two attachments was refused for want of a
\* token, while the Gemini key is set.
C36_Witness ==
    /\ message.type = "CREATE_GITHUB_ISSUE_WITH_IMAGES"
    /\ Len(message.attachments) = 2
    /\ settings = SettingsOf("key", "")
    /\ apiCalls = << >>
    /\ response = Failure("GitHub token not configured")

\* the names of the repositories of a page one may push to or administer
Pushable(data) ==
    LET kept == SelectSeq(data, LAMBDA repo : repo.push \/ repo.admin)
    IN  [ i \in 1..Len(kept) |-> kept[i].full_name ]

C38_EditorLoadsItsOwnCapture ==
    \A t \in Triggers :
        /\ loaded[t].state # "error"
        /\ loaded[t].state = "draft"
              => (loaded[t].screenshot = t /\ loaded[t].context = t)

====
